---- MODULE Spec2Model ----
(***************************************************************************)
(* A model of the BitArray slot allocator of bitarray.go.                  *)
(*                                                                         *)
(* A BitBlock (uint64) is modelled as the set of its set bit positions,    *)
(* a subset of 0..blockSize-1: bit j of the word is 1 iff j is in the set. *)
(* The bitwise operators of the source are the corresponding set           *)
(* operators (| is \cup, & is \cap, &^ is \, ^ is the complement within    *)
(* 0..63) and x - 1 is computed on the bit set as the borrow chain does.   *)
(***************************************************************************)
EXTENDS Integers, FiniteSets, Sequences

\* ------------------------------------------------------------- bounds
\* capacities 0..MaxSmallCap are built, next to those around the word width
MaxSmallCap == 2
\* indices 0..MaxLowIndex are passed to Set/Get, next to the first index of the
\* second word
MaxLowIndex == 1
\* the fresh-bitmap scenario also builds capacities w*blockSize-1 .. w*blockSize+MaxOverCap
\* for w = 1..MaxWords
MaxWords == 2
MaxOverCap == 2
\* number of concurrent callers (and the capacity) of the allocation scenario
MaxProcs == 3
\* MarkFree calls made beyond the capacity in the fresh-bitmap scenario
MaxExtraCalls == 2
\* number of concurrent callers that make any public call
MaxCallers == 2

\* ------------------------------------------------------------- constants
blockSize == 64
BitBlockNotFound == -1
bitBlockFull == 0 .. (blockSize - 1)
bitBlockMark == TRUE
bitBlockUnmark == FALSE

VARIABLES
    capacity,   \* BitArray.capacity
    size,       \* BitArray.size, the number of blocks
    blocks,     \* BitArray.blocks: [0..size-1 -> SUBSET bitBlockFull]
    curIndex,   \* BitArray.curIndex, the scan cursor
    count,      \* BitArray.count, the atomic occupied counter
    mu,         \* BitArray.mu: [writer |-> 0 or a caller, readers |-> set of callers]
    pc,         \* position of each concurrent caller
    idx,        \* the index each concurrent caller received from MarkFree
    got,        \* the value each concurrent caller's Get returned
    last,       \* the last sequential call and what it returned
    rets,       \* results of the sequential MarkFree calls of the fresh-bitmap scenario
    call,       \* the call each concurrent caller is in: its arguments and results
    lin         \* the bitmap as the calls linearized so far leave it, and the
                \* results the sequential calls return at their linearization points

vars == <<capacity, size, blocks, curIndex, count, mu, pc, idx, got, last, rets,
          call, lin>>

bitmap == <<capacity, size, blocks, curIndex, count>>
callers == <<mu, pc, idx, got, call, lin>>

\* ------------------------------------------------------------- BitBlock
\* Go's / and % truncate toward zero
GoDiv(a, b) == IF a >= 0 THEN a \div b ELSE -((-a) \div b)
GoMod(a, b) == a - b * GoDiv(a, b)

bitIndexAndNum(i) == <<GoDiv(i, blockSize), GoMod(i, blockSize)>>

\* 1 << bit: a shift count at or above the width yields 0
mask(bit) == IF bit < blockSize THEN {bit} ELSE {}

value(b, bit) == (b \cap mask(bit)) # {}

mark_skip(b, bit) == b
mark(b, bit) == b \cup mask(bit)

unmark(b, bit) == b \ mask(bit)

compareAndMark_always(b, bit) ==
    [changed |-> TRUE, block |-> b \cup mask(bit)]
compareAndMark(b, bit) ==
    LET n == mask(bit)
        changed == (b \cap n) = {}
    IN  [changed |-> changed, block |-> IF changed THEN b \cup n ELSE b]

compareAndUnmark_keep(b, bit) ==
    [changed |-> (b \cap mask(bit)) # {}, block |-> b]
compareAndUnmark(b, bit) ==
    LET n == mask(bit)
        changed == (b \cap n) # {}
    IN  [changed |-> changed, block |-> IF changed THEN b \ n ELSE b]

hasRoom(b) == b # bitBlockFull

\* ^b
Not(b) == bitBlockFull \ b
Dec_noborrow(b) ==
    IF b = {} THEN bitBlockFull
    ELSE b \ {CHOOSE x \in b : \A y \in b : x <= y}
\* b - 1 on 64 bits: the lowest set bit is cleared and the bits below it are set;
\* 0 - 1 wraps to all ones
Dec(b) ==
    IF b = {} THEN bitBlockFull
    ELSE LET m == CHOOSE x \in b : \A y \in b : x <= y
         IN  (b \ {m}) \cup (0 .. (m - 1))

\* the SWAR reduction returns the number of set bits of its argument
popcount64(b) == Cardinality(b)

ffz_highest(b) == CHOOSE x \in Not(b) : \A y \in Not(b) : y <= x
ffz(b) ==
    LET v == b \cap Dec(Not(b))
    IN  popcount64(v)

\* ------------------------------------------------------------- BitArray
NewBitArray(c) ==
    LET sz == GoDiv(c, blockSize) + 1
    IN  [blocks |-> [i \in 0 .. (sz - 1) |-> {}], capacity |-> c, size |-> sz,
         curIndex |-> 0, count |-> 0]

HasRoom_loose == count <= capacity
HasRoom == count < capacity

IsEmpty_nobits == count = 0
IsEmpty == ~HasRoom

\* Len() (the name Len is taken by Sequences)
BitArrayLen == count

Cap == capacity

GetIn_wrap(blks, index) ==
    LET ij == bitIndexAndNum(index)
    IN  value(blks[ij[1] % size], ij[2])
\* what Get(index) returns on the blocks blks (no concurrent writer)
GetIn(blks, index) ==
    LET ij == bitIndexAndNum(index)
    IN  IF ij[1] < size THEN value(blks[ij[1]], ij[2]) ELSE FALSE

Get(index) == GetIn(blocks, index)

nextFreeFrom_once(blks, cur, i) ==
    [found |-> hasRoom(blks[cur]), curIndex |-> cur, scanned |-> 1]
\* the loop of nextFree started at cur, i iterations done; scanned is the number
\* of blocks the loop has examined
RECURSIVE nextFreeFrom(_, _, _)
nextFreeFrom(blks, cur, i) ==
    IF i >= size THEN [found |-> FALSE, curIndex |-> cur, scanned |-> i]
    ELSE IF hasRoom(blks[cur]) THEN [found |-> TRUE, curIndex |-> cur, scanned |-> i + 1]
    ELSE nextFreeFrom(blks, (cur + 1) % size, i + 1)

nextFree == nextFreeFrom(blocks, curIndex, 0)

SetBody_norewind(index, m) ==
    LET ij == bitIndexAndNum(index)
        r == IF m = bitBlockMark THEN compareAndMark(blocks[ij[1]], ij[2])
             ELSE compareAndUnmark(blocks[ij[1]], ij[2])
    IN  [changed |-> r.changed,
         blocks |-> [blocks EXCEPT ![ij[1]] = r.block],
         count |-> IF ~r.changed THEN count
                   ELSE IF m = bitBlockMark THEN count + 1 ELSE count - 1,
         curIndex |-> curIndex,
         rewound |-> FALSE]
\* the body of Set under the lock
SetBody(index, m) ==
    LET ij == bitIndexAndNum(index)
        i == ij[1]
        j == ij[2]
    IN  IF m = bitBlockMark
        THEN LET r == compareAndMark(blocks[i], j)
             IN  [changed |-> r.changed,
                  blocks |-> [blocks EXCEPT ![i] = r.block],
                  count |-> IF r.changed THEN count + 1 ELSE count,
                  curIndex |-> curIndex,
                  rewound |-> FALSE]
        ELSE LET r == compareAndUnmark(blocks[i], j)
             IN  [changed |-> r.changed,
                  blocks |-> [blocks EXCEPT ![i] = r.block],
                  count |-> IF r.changed THEN count - 1 ELSE count,
                  curIndex |-> IF r.changed /\ i < curIndex THEN i ELSE curIndex,
                  rewound |-> r.changed /\ i < curIndex]

\* Set as one sequential call
SetCall(index, m) ==
    IF bitIndexAndNum(index)[1] < size
    THEN SetBody(index, m)
    ELSE [changed |-> FALSE, blocks |-> blocks, count |-> count,
          curIndex |-> curIndex, rewound |-> FALSE]

\* the locked part of MarkFree
MarkFreeBody ==
    IF HasRoom
    THEN LET nf == nextFree
         IN  IF nf.found
             THEN LET j == ffz(blocks[nf.curIndex])
                  IN  [index |-> (nf.curIndex * blockSize) + j,
                       blocks |-> [blocks EXCEPT ![nf.curIndex] = mark(@, j)],
                       count |-> count + 1,
                       curIndex |-> nf.curIndex]
             ELSE [index |-> BitBlockNotFound, blocks |-> blocks, count |-> count,
                   curIndex |-> nf.curIndex]
    ELSE [index |-> BitBlockNotFound, blocks |-> blocks, count |-> count,
          curIndex |-> curIndex]

\* MarkFree as one sequential call
MarkFreeCall ==
    IF ~HasRoom
    THEN [index |-> BitBlockNotFound, blocks |-> blocks, count |-> count,
          curIndex |-> curIndex]
    ELSE MarkFreeBody

ResetBlocks_keep == blocks
ResetBlocks == [i \in 0 .. (size - 1) |-> {}]

\* ------------------------------------------------------------- inputs
\* blockSize+1 is the least capacity at which the scan leaves the first word
Capacities ==
    (0 .. MaxSmallCap) \cup {blockSize - 1, blockSize, blockSize + 1}

FreshCapacities ==
    (0 .. MaxSmallCap) \cup
    {w * blockSize + d : w \in 1 .. MaxWords, d \in (0 - 1) .. MaxOverCap}

Indices == (0 .. MaxLowIndex) \cup {blockSize}

Procs == 1 .. MaxProcs

NoCallRec == [op |-> "none", index |-> 0, mark |-> FALSE, ret |-> 0, res |-> FALSE]
NoExp == [ret |-> 0, res |-> FALSE]

NoCall == [op |-> "New", arg |-> 0, mark |-> FALSE, changed |-> FALSE,
           ret |-> 0, rewound |-> FALSE]

InitBitmap(c) ==
    LET b == NewBitArray(c)
    IN  /\ capacity = b.capacity
        /\ size = b.size
        /\ blocks = b.blocks
        /\ curIndex = b.curIndex
        /\ count = b.count

InitCallers(n) ==
    /\ mu = [writer |-> 0, readers |-> {}]
    /\ pc = [p \in Procs |-> IF p <= n THEN "start" ELSE "off"]
    /\ idx = [p \in Procs |-> BitBlockNotFound]
    /\ got = [p \in Procs |-> FALSE]
    /\ call = [p \in Procs |-> NoCallRec]
    /\ lin = [blocks |-> <<>>, count |-> 0, curIndex |-> 0,
              exp |-> [p \in Procs |-> NoExp]]

\* ------------------------------------------------------------- sequential calls
Init ==
    /\ \E c \in Capacities : InitBitmap(c)
    /\ InitCallers(0)
    /\ last = NoCall
    /\ rets = <<>>

Set(index, m) ==
    LET r == SetCall(index, m)
    IN  /\ blocks' = r.blocks
        /\ count' = r.count
        /\ curIndex' = r.curIndex
        /\ last' = [op |-> "Set", arg |-> index, mark |-> m, changed |-> r.changed,
                    ret |-> 0, rewound |-> r.rewound]
        /\ UNCHANGED <<capacity, size, callers, rets>>

Mark(index) == Set(index, bitBlockMark)

Unmark(index) == Set(index, bitBlockUnmark)

GetCall(index) ==
    /\ last' = [op |-> "Get", arg |-> index, mark |-> FALSE, changed |-> Get(index),
                ret |-> 0, rewound |-> FALSE]
    /\ UNCHANGED <<bitmap, callers, rets>>

MarkFree ==
    LET r == MarkFreeCall
    IN  /\ blocks' = r.blocks
        /\ count' = r.count
        /\ curIndex' = r.curIndex
        /\ last' = [op |-> "MarkFree", arg |-> 0, mark |-> FALSE, changed |-> FALSE,
                    ret |-> r.index, rewound |-> FALSE]
        /\ UNCHANGED <<capacity, size, callers, rets>>

Reset ==
    /\ blocks' = ResetBlocks
    /\ count' = 0
    /\ last' = [op |-> "Reset", arg |-> 0, mark |-> FALSE, changed |-> FALSE,
                ret |-> 0, rewound |-> FALSE]
    /\ UNCHANGED <<capacity, size, curIndex, callers, rets>>

Next ==
    \/ \E i \in Indices : Mark(i)
    \/ \E i \in Indices : Unmark(i)
    \/ \E i \in Indices : GetCall(i)
    \/ MarkFree
    \/ Reset

Spec == Init /\ [][Next]_vars

\* the sequential calls without Reset
NextNoReset ==
    \/ \E i \in Indices : Mark(i)
    \/ \E i \in Indices : Unmark(i)
    \/ \E i \in Indices : GetCall(i)
    \/ MarkFree

SpecNoReset == Init /\ [][NextNoReset]_vars

\* ------------------------------------------------------------- fresh bitmap, MarkFree only
\* MarkFree called in sequence on a fresh bitmap; each result is recorded with the
\* value HasRoom() returns right after the call
MarkFreeSeq ==
    /\ Len(rets) < capacity + MaxExtraCalls
    /\ LET r == MarkFreeCall
       IN  /\ blocks' = r.blocks
           /\ count' = r.count
           /\ curIndex' = r.curIndex
           /\ rets' = Append(rets, [index |-> r.index, hasRoom |-> r.count < capacity])
           /\ last' = [op |-> "MarkFree", arg |-> 0, mark |-> FALSE, changed |-> FALSE,
                       ret |-> r.index, rewound |-> FALSE]
    /\ UNCHANGED <<capacity, size, callers>>

InitFresh ==
    /\ \E c \in FreshCapacities : InitBitmap(c)
    /\ InitCallers(0)
    /\ last = NoCall
    /\ rets = <<>>

NextFresh == MarkFreeSeq

SpecFresh == InitFresh /\ [][NextFresh]_vars

\* ------------------------------------------------------------- concurrent allocation
\* TestBitArrayConcurent: capacity n, n callers, each MarkFree, Get, Unmark.
InitAlloc ==
    /\ \E n \in 1 .. MaxProcs : InitBitmap(n) /\ InitCallers(n)
    /\ last = NoCall
    /\ rets = <<>>

LockFree == mu.writer = 0 /\ mu.readers = {}

\* MarkFree line 137: the fast check without the lock
MFFastCheck(p) ==
    /\ pc[p] = "start"
    /\ IF ~HasRoom
       THEN /\ idx' = [idx EXCEPT ![p] = BitBlockNotFound]
            /\ pc' = [pc EXCEPT ![p] = "get"]
       ELSE /\ idx' = [idx EXCEPT ![p] = BitBlockNotFound]
            /\ pc' = [pc EXCEPT ![p] = "mfLock"]
    /\ UNCHANGED <<bitmap, mu, got, last, rets, call, lin>>

\* MarkFree line 141: b.mu.Lock()
MFLock(p) ==
    /\ pc[p] = "mfLock"
    /\ LockFree
    /\ mu' = [mu EXCEPT !.writer = p]
    /\ pc' = [pc EXCEPT ![p] = "mfCheck"]
    /\ UNCHANGED <<bitmap, idx, got, last, rets, call, lin>>

\* MarkFree lines 143-145: the re-check, nextFree and count.Inc()
MFCheck(p) ==
    /\ pc[p] = "mfCheck"
    /\ IF HasRoom
       THEN LET nf == nextFree
            IN  /\ curIndex' = nf.curIndex
                /\ IF nf.found
                   THEN /\ count' = count + 1
                        /\ pc' = [pc EXCEPT ![p] = "mfMark"]
                   ELSE /\ pc' = [pc EXCEPT ![p] = "mfUnlock"]
                        /\ UNCHANGED count
       ELSE /\ pc' = [pc EXCEPT ![p] = "mfUnlock"]
            /\ UNCHANGED <<curIndex, count>>
    /\ UNCHANGED <<capacity, size, blocks, mu, idx, got, last, rets, call, lin>>

\* MarkFree lines 147-150: ffz, mark and the index
MFMark(p) ==
    /\ pc[p] = "mfMark"
    /\ LET j == ffz(blocks[curIndex])
       IN  /\ blocks' = [blocks EXCEPT ![curIndex] = mark(@, j)]
           /\ idx' = [idx EXCEPT ![p] = (curIndex * blockSize) + j]
    /\ pc' = [pc EXCEPT ![p] = "mfUnlock"]
    /\ UNCHANGED <<capacity, size, curIndex, count, mu, got, last, rets, call, lin>>

\* MarkFree line 154: b.mu.Unlock() and the return
MFUnlock(p) ==
    /\ pc[p] = "mfUnlock"
    /\ mu' = [mu EXCEPT !.writer = 0]
    /\ pc' = [pc EXCEPT ![p] = "get"]
    /\ UNCHANGED <<bitmap, idx, got, last, rets, call, lin>>

\* Get lines 110-113: the range check and b.mu.RLock()
GetRLock(p) ==
    /\ pc[p] = "get"
    /\ IF bitIndexAndNum(idx[p])[1] < size
       THEN /\ mu.writer = 0
            /\ mu' = [mu EXCEPT !.readers = @ \cup {p}]
            /\ pc' = [pc EXCEPT ![p] = "getRead"]
            /\ UNCHANGED got
       ELSE /\ got' = [got EXCEPT ![p] = FALSE]
            /\ pc' = [pc EXCEPT ![p] = "unmark"]
            /\ UNCHANGED mu
    /\ UNCHANGED <<bitmap, idx, last, rets, call, lin>>

\* Get lines 114-115: block.value(j) and b.mu.RUnlock(); a negative bit number
\* makes 1 << bit panic with the read lock held
GetRead(p) ==
    /\ pc[p] = "getRead"
    /\ LET ij == bitIndexAndNum(idx[p])
       IN  IF ij[2] < 0
           THEN /\ pc' = [pc EXCEPT ![p] = "panic"]
                /\ UNCHANGED <<got, mu>>
           ELSE /\ got' = [got EXCEPT ![p] = value(blocks[ij[1]], ij[2])]
                /\ mu' = [mu EXCEPT !.readers = @ \ {p}]
                /\ pc' = [pc EXCEPT ![p] = "unmark"]
    /\ UNCHANGED <<bitmap, idx, last, rets, call, lin>>

\* Set lines 83-86: the range check and b.mu.Lock()
SetLock(p) ==
    /\ pc[p] = "unmark"
    /\ IF bitIndexAndNum(idx[p])[1] < size
       THEN /\ LockFree
            /\ mu' = [mu EXCEPT !.writer = p]
            /\ pc' = [pc EXCEPT ![p] = "setBody"]
       ELSE /\ pc' = [pc EXCEPT ![p] = "done"]
            /\ UNCHANGED mu
    /\ UNCHANGED <<bitmap, idx, got, last, rets, call, lin>>

\* Set lines 92-100 with mark = false
SetUnmark(p) ==
    /\ pc[p] = "setBody"
    /\ IF bitIndexAndNum(idx[p])[2] < 0
       THEN /\ pc' = [pc EXCEPT ![p] = "panic"]
            /\ UNCHANGED <<blocks, count, curIndex>>
       ELSE LET r == SetBody(idx[p], bitBlockUnmark)
            IN  /\ blocks' = r.blocks
                /\ count' = r.count
                /\ curIndex' = r.curIndex
                /\ pc' = [pc EXCEPT ![p] = "setUnlock"]
    /\ UNCHANGED <<capacity, size, mu, idx, got, last, rets, call, lin>>

\* Set line 102: b.mu.Unlock() and the return
SetUnlock(p) ==
    /\ pc[p] = "setUnlock"
    /\ mu' = [mu EXCEPT !.writer = 0]
    /\ pc' = [pc EXCEPT ![p] = "done"]
    /\ UNCHANGED <<bitmap, idx, got, last, rets, call, lin>>

NextAlloc ==
    \E p \in Procs :
        \/ MFFastCheck(p)
        \/ MFLock(p)
        \/ MFCheck(p)
        \/ MFMark(p)
        \/ MFUnlock(p)
        \/ GetRLock(p)
        \/ GetRead(p)
        \/ SetLock(p)
        \/ SetUnmark(p)
        \/ SetUnlock(p)

SpecAlloc == InitAlloc /\ [][NextAlloc]_vars

\* ------------------------------------------------------------- properties

\* C2: on a fresh bitmap of capacity C, with MarkFree calls only, the k-th call
\* (k = 1..C) returns k-1, HasRoom() is true after each of the first C-1 calls and
\* false after the C-th, and the (C+1)-th call returns BitBlockNotFound.
C2_FreshMarkFreeInOrder ==
    \A k \in 1 .. Len(rets) :
        /\ k <= capacity =>
              /\ rets[k].index = k - 1
              /\ rets[k].hasRoom = (k < capacity)
        /\ k = capacity + 1 => rets[k].index = BitBlockNotFound

\* the scan has crossed a word boundary and the call after the last slot was made
C2_Witness ==
    /\ capacity > blockSize
    /\ Len(rets) = capacity + 1
    /\ rets[capacity].index = capacity - 1
    /\ curIndex = 1

Allocated(p) == pc[p] \in {"mfUnlock", "get", "getRead", "unmark", "setBody"}
Returned(p) == pc[p] \in {"get", "getRead", "unmark", "setBody", "setUnlock", "done", "panic"}
Active == 1 .. capacity

\* C1: with N callers on a bitmap of capacity N, each calling MarkFree, Get and
\* Unmark of the index it received: no MarkFree returns BitBlockNotFound, no two
\* callers hold the same index at once, the holder's bit is set and its Get
\* returns true, nothing panics, and when all callers are done Len() is 0.
C1_AllocMutualExclusion ==
    /\ \A p \in Active : Returned(p) => idx[p] # BitBlockNotFound
    /\ \A p \in Active : pc[p] = "mfUnlock" => idx[p] # BitBlockNotFound
    /\ \A p, q \in Active : (p # q /\ Allocated(p) /\ Allocated(q)) => idx[p] # idx[q]
    /\ \A p \in Active : Allocated(p) => Get(idx[p])
    /\ \A p \in Active : pc[p] \in {"unmark", "setBody", "setUnlock", "done"} => got[p]
    /\ \A p \in Active : pc[p] # "panic"
    /\ (\A p \in Active : pc[p] = "done") => BitArrayLen = 0

\* all callers are done, and one index was handed out twice, the second time after
\* its first holder had unmarked it
C1_Witness ==
    /\ capacity >= 2
    /\ \A p \in Active : pc[p] = "done" /\ got[p]
    /\ \E p, q \in Active : p # q /\ idx[p] = idx[q]

InCapacity(i) == 0 <= i /\ i < capacity

\* Get(k) returns the same on the blocks a and b for every index k other than
\* index: Get(k) reads bit k % blockSize of block k / blockSize and is false beyond
\* the blocks
SameGetExceptAt(a, b, index) ==
    LET ij == bitIndexAndNum(index)
    IN  \A w \in 0 .. (size - 1) :
            IF w = ij[1] THEN a[w] \ {ij[2]} = b[w] \ {ij[2]} ELSE a[w] = b[w]

\* the indices at which Get returns true on the blocks a
Occupied(a) == UNION {{w * blockSize + j : j \in a[w]} : w \in 0 .. (size - 1)}

\* C3: for every index i in [0, capacity), right after Mark(i) Get(i) is true, right
\* after Unmark(i) Get(i) is false, and the call leaves Get(k) as it was for every
\* other index k.
C3_MarkUnmarkThenGet ==
    [][(last'.op = "Set" /\ InCapacity(last'.arg)) =>
          /\ GetIn(blocks', last'.arg) = last'.mark
          /\ SameGetExceptAt(blocks, blocks', last'.arg)
          /\ \A k \in Indices \ {last'.arg} : GetIn(blocks', k) = Get(k)]_vars

\* Unmark(i) has cleared a set bit of the second word while other bits stay set
C3_Witness ==
    /\ last.op = "Set"
    /\ last.mark = bitBlockUnmark
    /\ last.changed
    /\ InCapacity(last.arg)
    /\ last.arg >= blockSize
    /\ ~Get(last.arg)
    /\ Get(0)

\* C4: for i in [0, capacity), Set(i, v) returns changed = true exactly when Get(i)
\* differed from v before the call; a Set(i, v) that directly follows a Set(i, v)
\* returns changed = false and leaves blocks, count and cursor as they were.
C4_SetChangedIffDiffers ==
    [][(last'.op = "Set" /\ InCapacity(last'.arg)) =>
          /\ last'.changed <=> (Get(last'.arg) # last'.mark)
          /\ (last.op = "Set" /\ last.arg = last'.arg /\ last.mark = last'.mark) =>
                /\ ~last'.changed
                /\ blocks' = blocks
                /\ count' = count
                /\ curIndex' = curIndex]_vars

\* Set(i, true) on a slot of the second word that was already occupied
C4_Witness ==
    /\ last.op = "Set"
    /\ last.mark = bitBlockMark
    /\ ~last.changed
    /\ InCapacity(last.arg)
    /\ last.arg >= blockSize
    /\ Get(last.arg)

\* C5: HasRoom() is false exactly when Len() == Cap(), and IsEmpty() is the
\* negation of HasRoom().
C5_NoRoomIffLenIsCap ==
    /\ ~HasRoom <=> (BitArrayLen = Cap)
    /\ IsEmpty <=> ~HasRoom

\* C6 as stated: after Reset() Len() == 0, HasRoom() == true, every Get(i) is
\* false and Cap() is what it was, for every capacity including 0.
C6_ResetThenHasRoom ==
    [][last'.op = "Reset" =>
          /\ BitArrayLen' = 0
          /\ HasRoom'
          /\ Occupied(blocks') = {}
          /\ \A k \in Indices : ~GetIn(blocks', k)
          /\ Cap' = Cap]_vars

\* C6 amended: after Reset() Len() == 0, every Get(i) is false, Cap() is what it
\* was, and HasRoom() is true exactly when the capacity is above 0.
C6_ResetClears ==
    [][last'.op = "Reset" =>
          /\ BitArrayLen' = 0
          /\ HasRoom' <=> (Cap > 0)
          /\ Occupied(blocks') = {}
          /\ \A k \in Indices : ~GetIn(blocks', k)
          /\ Cap' = Cap]_vars

\* Reset() has returned on a bitmap whose cursor had reached the second word
C6_Witness ==
    /\ last.op = "Reset"
    /\ curIndex > 0
    /\ BitArrayLen = 0
    /\ HasRoom

\* C7: 0 <= occupied count <= capacity in every reachable state.
C7_CountWithinCapacity == 0 <= count /\ count <= capacity

\* C8: the first MarkFree after Reset() returns 0 when the capacity is above 0, as
\* it does on a fresh bitmap.
C8_MarkFreeAfterResetIsZero ==
    [][(last.op = "Reset" /\ last'.op = "MarkFree" /\ capacity > 0) =>
          last'.ret = 0]_vars

\* C9: when MarkFree returns an index, it is the smallest index whose bit was clear
\* before the call, and that bit is set after the call.
C9_MarkFreeReturnsFirstClear ==
    [][(last'.op = "MarkFree" /\ last'.ret # BitBlockNotFound) =>
          /\ ~Get(last'.ret)
          /\ \A k \in 0 .. (last'.ret - 1) : Get(k)
          /\ GetIn(blocks', last'.ret)]_vars

\* C10: when Unmark(i) frees a slot whose word is below the cursor, the MarkFree
\* that directly follows returns i.
C10_MarkFreeAfterRewind ==
    [][(last.op = "Set" /\ last.rewound /\ last'.op = "MarkFree") =>
          last'.ret = last.arg]_vars

OutOfRange(i) == i >= 0 /\ bitIndexAndNum(i)[1] >= size

\* C11: for an index whose word index is at or beyond the number of blocks, Get
\* returns false, Set(i, true) and Set(i, false) return changed = false, and
\* blocks, count and cursor stay as they were.
C11_OutOfRangeIgnored ==
    [][(last'.op \in {"Set", "Get"} /\ OutOfRange(last'.arg)) =>
          /\ ~last'.changed
          /\ blocks' = blocks
          /\ count' = count
          /\ curIndex' = curIndex]_vars

\* Set(i, true) beyond the blocks of a bitmap that holds set bits
C11_Witness ==
    /\ last.op = "Set"
    /\ last.mark = bitBlockMark
    /\ OutOfRange(last.arg)
    /\ count > 0
    /\ ~Get(last.arg)

\* C12: MarkFree can return an index at or above the capacity, and when it does
\* the count is still at most the capacity and the index is a bit of the blocks,
\* set by the call.
C12_SpillIndexWithinCount ==
    (last.op = "MarkFree" /\ last.ret >= capacity) =>
        /\ count <= capacity
        /\ bitIndexAndNum(last.ret)[1] < size
        /\ Get(last.ret)

\* MarkFree has returned an index at or above the capacity
C12_Witness ==
    /\ last.op = "MarkFree"
    /\ last.ret >= capacity
    /\ capacity > 0
    /\ count <= capacity

\* the number of set bits of the blocks 0..w
RECURSIVE SetBitsUpTo(_)
SetBitsUpTo(w) ==
    IF w < 0 THEN 0 ELSE Cardinality(blocks[w]) + SetBitsUpTo(w - 1)

SetBits == SetBitsUpTo(size - 1)

C16_MarkFreeOutcome ==
    [][last'.op = "MarkFree" =>
          IF count >= capacity
          THEN /\ last'.ret = BitBlockNotFound
               /\ blocks' = blocks
               /\ count' = count
               /\ curIndex' = curIndex
          ELSE /\ last'.ret # BitBlockNotFound
               /\ nextFree.found
               /\ last'.ret >= 0
               /\ bitIndexAndNum(last'.ret)[1] < size
               /\ ~Get(last'.ret)
               /\ GetIn(blocks', last'.ret)
               /\ count' = count + 1
               /\ SameGetExceptAt(blocks, blocks', last'.ret)]_vars

\* MarkFree has returned BitBlockNotFound on a full bitmap of two blocks
C16_Witness ==
    /\ last.op = "MarkFree"
    /\ last.ret = BitBlockNotFound
    /\ capacity > blockSize
    /\ count >= capacity

\* the first block with room in circular order from cur
FirstWordWithRoom(blks, cur) ==
    LET ks == {k \in 0 .. (size - 1) : blks[(cur + k) % size] # bitBlockFull}
        k0 == CHOOSE k \in ks : \A x \in ks : k <= x
    IN  (cur + k0) % size

\* the lowest bit position that is clear in b
LowestClear(b) ==
    CHOOSE j \in bitBlockFull \ b : \A x \in bitBlockFull \ b : j <= x

\* C17: an index returned by MarkFree is blockSize*w + j, w the first block with
\* room in circular order from the cursor before the call and j the lowest clear
\* bit of w; the cursor is w after the call; Set(i, true) and Get leave the cursor.
C17_TieBreak ==
    [][/\ (last'.op = "MarkFree" /\ last'.ret # BitBlockNotFound) =>
             LET w == FirstWordWithRoom(blocks, curIndex)
             IN  /\ last'.ret = (blockSize * w) + LowestClear(blocks[w])
                 /\ curIndex' = w
       /\ (last'.op = "Get" \/ (last'.op = "Set" /\ last'.mark = bitBlockMark)) =>
             curIndex' = curIndex]_vars

\* the scan has wrapped from the full last block to the first one
C17_Witness ==
    /\ last.op = "MarkFree"
    /\ last.ret # BitBlockNotFound
    /\ size = 2
    /\ blocks[1] = bitBlockFull
    /\ curIndex = 0

\* C19: without Reset, whenever the lock is not held the cursor is within the
\* blocks and every block below the cursor is full.
C19_CursorInvariant ==
    mu.writer = 0 =>
        /\ 0 <= curIndex
        /\ curIndex < size
        /\ \A w \in 0 .. (curIndex - 1) : blocks[w] = bitBlockFull

\* the cursor has reached the second block and a Set call followed
C19_Witness ==
    /\ curIndex = 1
    /\ last.op = "Set"
    /\ last.changed
    /\ blocks[0] = bitBlockFull

\* ------------------------------------------------------------- calls as atomic functions
\* Each public call as a function of a bitmap st = [blocks, count, curIndex]: what
\* the call returns and the bitmap it leaves when nothing runs beside it.
SeqGet(st, index) == GetIn(st.blocks, index)

SeqSet(st, index, m) ==
    LET ij == bitIndexAndNum(index)
        i == ij[1]
        j == ij[2]
    IN  IF i >= size THEN [st |-> st, changed |-> FALSE]
        ELSE IF m = bitBlockMark
        THEN LET r == compareAndMark(st.blocks[i], j)
             IN  [st |-> [blocks |-> [st.blocks EXCEPT ![i] = r.block],
                          count |-> IF r.changed THEN st.count + 1 ELSE st.count,
                          curIndex |-> st.curIndex],
                  changed |-> r.changed]
        ELSE LET r == compareAndUnmark(st.blocks[i], j)
             IN  [st |-> [blocks |-> [st.blocks EXCEPT ![i] = r.block],
                          count |-> IF r.changed THEN st.count - 1 ELSE st.count,
                          curIndex |-> IF r.changed /\ i < st.curIndex
                                       THEN i ELSE st.curIndex],
                  changed |-> r.changed]

SeqMarkFree(st) ==
    IF ~(st.count < capacity) THEN [st |-> st, index |-> BitBlockNotFound]
    ELSE LET nf == nextFreeFrom(st.blocks, st.curIndex, 0)
         IN  IF nf.found
             THEN LET j == ffz(st.blocks[nf.curIndex])
                  IN  [st |-> [blocks |-> [st.blocks EXCEPT ![nf.curIndex] = mark(@, j)],
                               count |-> st.count + 1,
                               curIndex |-> nf.curIndex],
                       index |-> (nf.curIndex * blockSize) + j]
             ELSE [st |-> [st EXCEPT !.curIndex = nf.curIndex],
                   index |-> BitBlockNotFound]

SeqReset(st) ==
    [blocks |-> [i \in 0 .. (size - 1) |-> {}], count |-> 0, curIndex |-> st.curIndex]

\* the bitmap as it is now
Here == [blocks |-> blocks, count |-> count, curIndex |-> curIndex]

\* the sequential calls of Spec are these functions applied to the bitmap
SeqAgreesWithCalls ==
    /\ \A i \in Indices, m \in BOOLEAN :
          LET a == SeqSet(Here, i, m)
              c == SetCall(i, m)
          IN  /\ a.changed = c.changed
              /\ a.st = [blocks |-> c.blocks, count |-> c.count, curIndex |-> c.curIndex]
    /\ LET a == SeqMarkFree(Here)
           c == MarkFreeCall
       IN  /\ a.index = c.index
           /\ a.st = [blocks |-> c.blocks, count |-> c.count, curIndex |-> c.curIndex]
    /\ SeqReset(Here).blocks = ResetBlocks

\* ------------------------------------------------------------- concurrent callers
\* Callers that make any public call, one lock-level step at a time. pc[p] is the
\* caller's position, call[p] its call; lin is advanced at the step where the call
\* takes effect (its linearization point).
LinState == [blocks |-> lin.blocks, count |-> lin.count, curIndex |-> lin.curIndex]

Linearize(p, st, e) ==
    lin' = [blocks |-> st.blocks, count |-> st.count, curIndex |-> st.curIndex,
            exp |-> [lin.exp EXCEPT ![p] = e]]

others == <<capacity, size, idx, got, last, rets>>

CanRLock_any == TRUE
\* sync.RWMutex: RLock waits while a writer holds the lock
CanRLock == mu.writer = 0

\* Set line 83: the call and its range check
CSetBegin(p, i, m) ==
    /\ pc[p] = "idle"
    /\ call' = [call EXCEPT ![p] = [op |-> "Set", index |-> i, mark |-> m,
                                    ret |-> 0, res |-> FALSE]]
    /\ IF bitIndexAndNum(i)[1] < size
       THEN /\ pc' = [pc EXCEPT ![p] = "sLock"]
            /\ UNCHANGED lin
       ELSE /\ pc' = [pc EXCEPT ![p] = "ret"]
            /\ LET a == SeqSet(LinState, i, m)
               IN  Linearize(p, a.st, [ret |-> 0, res |-> a.changed])
    /\ UNCHANGED <<blocks, curIndex, count, mu, others>>

\* Set line 86: b.mu.Lock()
CSetLock(p) ==
    /\ pc[p] = "sLock"
    /\ LockFree
    /\ mu' = [mu EXCEPT !.writer = p]
    /\ pc' = [pc EXCEPT ![p] = "sBit"]
    /\ UNCHANGED <<blocks, curIndex, count, call, lin, others>>

\* Set lines 89 and 93: compareAndMark / compareAndUnmark
CSetBit(p) ==
    /\ pc[p] = "sBit"
    /\ LET ij == bitIndexAndNum(call[p].index)
           r == IF call[p].mark = bitBlockMark
                THEN compareAndMark(blocks[ij[1]], ij[2])
                ELSE compareAndUnmark(blocks[ij[1]], ij[2])
       IN  /\ blocks' = [blocks EXCEPT ![ij[1]] = r.block]
           /\ call' = [call EXCEPT ![p].res = r.changed]
    /\ pc' = [pc EXCEPT ![p] = "sCount"]
    /\ UNCHANGED <<curIndex, count, mu, lin, others>>

CSetCount_skip(p) ==
    /\ pc[p] = "sCount"
    /\ LET a == SeqSet(LinState, call[p].index, call[p].mark)
       IN  Linearize(p, a.st, [ret |-> 0, res |-> a.changed])
    /\ pc' = [pc EXCEPT ![p] = "sUnlock"]
    /\ UNCHANGED <<blocks, curIndex, count, mu, call, others>>
\* Set lines 90 and 94-98: count.Inc() / count.Dec() and the cursor; the call takes
\* effect here
CSetCount(p) ==
    /\ pc[p] = "sCount"
    /\ LET i == bitIndexAndNum(call[p].index)[1]
       IN  IF ~call[p].res
           THEN UNCHANGED <<count, curIndex>>
           ELSE IF call[p].mark = bitBlockMark
           THEN /\ count' = count + 1
                /\ UNCHANGED curIndex
           ELSE /\ count' = count - 1
                /\ curIndex' = IF i < curIndex THEN i ELSE curIndex
    /\ LET a == SeqSet(LinState, call[p].index, call[p].mark)
       IN  Linearize(p, a.st, [ret |-> 0, res |-> a.changed])
    /\ pc' = [pc EXCEPT ![p] = "sUnlock"]
    /\ UNCHANGED <<blocks, mu, call, others>>

\* Set line 102: b.mu.Unlock()
CSetUnlock(p) ==
    /\ pc[p] = "sUnlock"
    /\ mu' = [mu EXCEPT !.writer = 0]
    /\ pc' = [pc EXCEPT ![p] = "ret"]
    /\ UNCHANGED <<blocks, curIndex, count, call, lin, others>>

\* Get line 110: the call and its range check
CGetBegin(p, i) ==
    /\ pc[p] = "idle"
    /\ call' = [call EXCEPT ![p] = [op |-> "Get", index |-> i, mark |-> FALSE,
                                    ret |-> 0, res |-> FALSE]]
    /\ IF bitIndexAndNum(i)[1] < size
       THEN /\ pc' = [pc EXCEPT ![p] = "gRLock"]
            /\ UNCHANGED lin
       ELSE /\ pc' = [pc EXCEPT ![p] = "ret"]
            /\ Linearize(p, LinState, [ret |-> 0, res |-> SeqGet(LinState, i)])
    /\ UNCHANGED <<blocks, curIndex, count, mu, others>>

\* Get line 113: b.mu.RLock()
CGetRLock(p) ==
    /\ pc[p] = "gRLock"
    /\ CanRLock
    /\ mu' = [mu EXCEPT !.readers = @ \cup {p}]
    /\ pc' = [pc EXCEPT ![p] = "gRead"]
    /\ UNCHANGED <<blocks, curIndex, count, call, lin, others>>

\* Get line 114: block.value(j); the call takes effect here
CGetRead(p) ==
    /\ pc[p] = "gRead"
    /\ LET ij == bitIndexAndNum(call[p].index)
       IN  call' = [call EXCEPT ![p].res = value(blocks[ij[1]], ij[2])]
    /\ Linearize(p, LinState, [ret |-> 0, res |-> SeqGet(LinState, call[p].index)])
    /\ pc' = [pc EXCEPT ![p] = "gUnlock"]
    /\ UNCHANGED <<blocks, curIndex, count, mu, others>>

\* Get line 115: b.mu.RUnlock()
CGetRUnlock(p) ==
    /\ pc[p] = "gUnlock"
    /\ mu' = [mu EXCEPT !.readers = @ \ {p}]
    /\ pc' = [pc EXCEPT ![p] = "ret"]
    /\ UNCHANGED <<blocks, curIndex, count, call, lin, others>>

\* Len: one atomic read of the count
CLen(p) ==
    /\ pc[p] = "idle"
    /\ call' = [call EXCEPT ![p] = [op |-> "Len", index |-> 0, mark |-> FALSE,
                                    ret |-> count, res |-> FALSE]]
    /\ Linearize(p, LinState, [ret |-> lin.count, res |-> FALSE])
    /\ pc' = [pc EXCEPT ![p] = "ret"]
    /\ UNCHANGED <<blocks, curIndex, count, mu, others>>

\* HasRoom: one atomic read of the count
CHasRoom(p) ==
    /\ pc[p] = "idle"
    /\ call' = [call EXCEPT ![p] = [op |-> "HasRoom", index |-> 0, mark |-> FALSE,
                                    ret |-> 0, res |-> HasRoom]]
    /\ Linearize(p, LinState, [ret |-> 0, res |-> lin.count < capacity])
    /\ pc' = [pc EXCEPT ![p] = "ret"]
    /\ UNCHANGED <<blocks, curIndex, count, mu, others>>

\* the call returns
CReturn(p) ==
    /\ pc[p] = "ret"
    /\ pc' = [pc EXCEPT ![p] = "idle"]
    /\ call' = [call EXCEPT ![p] = NoCallRec]
    /\ lin' = [lin EXCEPT !.exp[p] = NoExp]
    /\ UNCHANGED <<blocks, curIndex, count, mu, others>>

\* MarkFree lines 135-139: the call and its fast check without the lock; a call
\* that finds no room takes effect here
CMarkFreeBegin(p) ==
    /\ pc[p] = "idle"
    /\ call' = [call EXCEPT ![p] = [op |-> "MarkFree", index |-> 0, mark |-> FALSE,
                                    ret |-> BitBlockNotFound, res |-> FALSE]]
    /\ IF ~HasRoom
       THEN /\ pc' = [pc EXCEPT ![p] = "ret"]
            /\ LET a == SeqMarkFree(LinState)
               IN  Linearize(p, a.st, [ret |-> a.index, res |-> FALSE])
       ELSE /\ pc' = [pc EXCEPT ![p] = "fLock"]
            /\ UNCHANGED lin
    /\ UNCHANGED <<blocks, curIndex, count, mu, others>>

\* MarkFree line 141: b.mu.Lock()
CMarkFreeLock(p) ==
    /\ pc[p] = "fLock"
    /\ LockFree
    /\ mu' = [mu EXCEPT !.writer = p]
    /\ pc' = [pc EXCEPT ![p] = "fCheck"]
    /\ UNCHANGED <<blocks, curIndex, count, call, lin, others>>

CMarkFreeCheck_norecheck(p) ==
    /\ pc[p] = "fCheck"
    /\ LET nf == nextFree
       IN  /\ curIndex' = nf.curIndex
           /\ IF nf.found
              THEN /\ count' = count + 1
                   /\ pc' = [pc EXCEPT ![p] = "fMark"]
              ELSE /\ pc' = [pc EXCEPT ![p] = "fUnlock"]
                   /\ UNCHANGED count
    /\ LET a == SeqMarkFree(LinState)
       IN  Linearize(p, a.st, [ret |-> a.index, res |-> FALSE])
    /\ UNCHANGED <<blocks, mu, call, others>>
\* MarkFree lines 143-145: the re-check under the lock, nextFree and count.Inc();
\* the call takes effect here
CMarkFreeCheck(p) ==
    /\ pc[p] = "fCheck"
    /\ IF HasRoom
       THEN LET nf == nextFree
            IN  /\ curIndex' = nf.curIndex
                /\ IF nf.found
                   THEN /\ count' = count + 1
                        /\ pc' = [pc EXCEPT ![p] = "fMark"]
                   ELSE /\ pc' = [pc EXCEPT ![p] = "fUnlock"]
                        /\ UNCHANGED count
       ELSE /\ pc' = [pc EXCEPT ![p] = "fUnlock"]
            /\ UNCHANGED <<curIndex, count>>
    /\ LET a == SeqMarkFree(LinState)
       IN  Linearize(p, a.st, [ret |-> a.index, res |-> FALSE])
    /\ UNCHANGED <<blocks, mu, call, others>>

\* MarkFree lines 147-150: ffz, mark and the index
CMarkFreeMark(p) ==
    /\ pc[p] = "fMark"
    /\ LET j == ffz(blocks[curIndex])
       IN  /\ blocks' = [blocks EXCEPT ![curIndex] = mark(@, j)]
           /\ call' = [call EXCEPT ![p].ret = (curIndex * blockSize) + j]
    /\ pc' = [pc EXCEPT ![p] = "fUnlock"]
    /\ UNCHANGED <<curIndex, count, mu, lin, others>>

CMarkFreeUnlock_keep(p) ==
    /\ pc[p] = "fUnlock"
    /\ pc' = [pc EXCEPT ![p] = "ret"]
    /\ UNCHANGED <<blocks, curIndex, count, mu, call, lin, others>>
\* MarkFree line 154: b.mu.Unlock()
CMarkFreeUnlock(p) ==
    /\ pc[p] = "fUnlock"
    /\ mu' = [mu EXCEPT !.writer = 0]
    /\ pc' = [pc EXCEPT ![p] = "ret"]
    /\ UNCHANGED <<blocks, curIndex, count, call, lin, others>>

\* Reset: the call
CResetBegin(p) ==
    /\ pc[p] = "idle"
    /\ call' = [call EXCEPT ![p] = [op |-> "Reset", index |-> 0, mark |-> FALSE,
                                    ret |-> 0, res |-> FALSE]]
    /\ pc' = [pc EXCEPT ![p] = "rLock"]
    /\ UNCHANGED <<blocks, curIndex, count, mu, lin, others>>

\* Reset line 71: b.mu.Lock()
CResetLock(p) ==
    /\ pc[p] = "rLock"
    /\ LockFree
    /\ mu' = [mu EXCEPT !.writer = p]
    /\ pc' = [pc EXCEPT ![p] = "rZero"]
    /\ UNCHANGED <<blocks, curIndex, count, call, lin, others>>

\* Reset lines 74-76: every block is zeroed
CResetZero(p) ==
    /\ pc[p] = "rZero"
    /\ blocks' = ResetBlocks
    /\ pc' = [pc EXCEPT ![p] = "rCount"]
    /\ UNCHANGED <<curIndex, count, mu, call, lin, others>>

\* Reset line 78: count.Set(0); the call takes effect here
CResetCount(p) ==
    /\ pc[p] = "rCount"
    /\ count' = 0
    /\ Linearize(p, SeqReset(LinState), NoExp)
    /\ pc' = [pc EXCEPT ![p] = "rUnlock"]
    /\ UNCHANGED <<blocks, curIndex, mu, call, others>>

\* Reset line 72: the deferred b.mu.Unlock()
CResetUnlock(p) ==
    /\ pc[p] = "rUnlock"
    /\ mu' = [mu EXCEPT !.writer = 0]
    /\ pc' = [pc EXCEPT ![p] = "ret"]
    /\ UNCHANGED <<blocks, curIndex, count, call, lin, others>>

\* the bitmap of capacity c after k <= c sequential MarkFree calls: the first k
\* bits are set and the cursor is on the block of the last one
InitBitmapAfter(c, k) ==
    /\ capacity = c
    /\ size = GoDiv(c, blockSize) + 1
    /\ blocks = [w \in 0 .. GoDiv(c, blockSize) |->
                    {j \in bitBlockFull : (w * blockSize) + j < k}]
    /\ curIndex = IF k = 0 THEN 0 ELSE GoDiv(k - 1, blockSize)
    /\ count = k

\* the fresh-bitmap scenario passes through the bitmaps of InitBitmapAfter
FreshIsPrefix ==
    LET k == IF Len(rets) < capacity THEN Len(rets) ELSE capacity
    IN  /\ blocks = [w \in 0 .. (size - 1) |->
                        {j \in bitBlockFull : (w * blockSize) + j < k}]
        /\ curIndex = (IF k = 0 THEN 0 ELSE GoDiv(k - 1, blockSize))
        /\ count = k

\* fresh small bitmaps, and the bitmap of capacity blockSize+1 whose first block
\* has been filled by blockSize MarkFree calls
Starts ==
    {<<c, 0>> : c \in 0 .. MaxSmallCap} \cup {<<blockSize + 1, blockSize>>}

InitCalling(n) ==
    /\ mu = [writer |-> 0, readers |-> {}]
    /\ pc = [p \in Procs |-> IF p <= n THEN "idle" ELSE "off"]
    /\ idx = [p \in Procs |-> BitBlockNotFound]
    /\ got = [p \in Procs |-> FALSE]
    /\ call = [p \in Procs |-> NoCallRec]
    /\ lin = [blocks |-> blocks, count |-> count, curIndex |-> curIndex,
              exp |-> [p \in Procs |-> NoExp]]
    /\ last = NoCall
    /\ rets = <<>>

\* the arguments of the concurrent Set and Get calls: the first bit of each of
\* the first two words, the second of them out of range on a one-word bitmap
ConcIndices == {0, blockSize}

\* a fresh one-word bitmap, and the two-word bitmap with one slot left
ConcStarts == {<<MaxSmallCap, 0>>, <<blockSize + 1, blockSize>>}

InitConc ==
    /\ \E s \in ConcStarts : InitBitmapAfter(s[1], s[2])
    /\ InitCalling(MaxCallers)

\* every caller makes any call at any time; Reset is called on the one-word
\* bitmaps only, where refilling after it takes at most MaxSmallCap calls
NextConc ==
    \E p \in Procs :
        \/ \E i \in ConcIndices, m \in BOOLEAN : CSetBegin(p, i, m)
        \/ CSetLock(p)
        \/ CSetBit(p)
        \/ CSetCount(p)
        \/ CSetUnlock(p)
        \/ \E i \in ConcIndices : CGetBegin(p, i)
        \/ CGetRLock(p)
        \/ CGetRead(p)
        \/ CGetRUnlock(p)
        \/ CLen(p)
        \/ CHasRoom(p)
        \/ CMarkFreeBegin(p)
        \/ CMarkFreeLock(p)
        \/ CMarkFreeCheck(p)
        \/ CMarkFreeMark(p)
        \/ CMarkFreeUnlock(p)
        \/ (size = 1 /\ CResetBegin(p))
        \/ CResetLock(p)
        \/ CResetZero(p)
        \/ CResetCount(p)
        \/ CResetUnlock(p)
        \/ CReturn(p)

SpecConc == InitConc /\ [][NextConc]_vars

\* ---------------------------------------------------------------------------
\* C14: in every state in which no caller holds the exclusive lock, the count
\* equals the number of set bits of all words, spill bits included; and every
\* step that changes the count is a step of the caller that holds the
\* exclusive lock.
C14_CounterConsistency ==
    /\ [](mu.writer = 0 => count = SetBits)
    /\ [][count' # count =>
            /\ mu.writer # 0
            /\ pc'[mu.writer] # pc[mu.writer]
            /\ mu'.writer = mu.writer]_vars

\* the lock is free after a Set changed a bit and a MarkFree handed out an
\* index, and bits are set
C14_Witness ==
    /\ mu.writer = 0
    /\ count >= 1
    /\ count = SetBits
    /\ \E p, q \in Procs :
          /\ pc[p] = "ret" /\ call[p].op = "MarkFree" /\ call[p].ret >= 0
          /\ pc[q] = "ret" /\ call[q].op = "Set" /\ call[q].res

\* ---------------------------------------------------------------------------
\* C18: every call returns what it returns in the sequential execution that
\* orders the calls by the step at which each takes effect, a step between the
\* call and its return; the count always is the count of that execution; and
\* while a Get holds the read lock no mutation is in its critical section, the
\* words being those of the sequential execution.
C18_Linearizable ==
    /\ \A p \in Procs :
          pc[p] = "ret" => /\ call[p].ret = lin.exp[p].ret
                           /\ call[p].res = lin.exp[p].res
    /\ count = lin.count
    /\ mu.readers # {} => /\ mu.writer = 0
                          /\ blocks = lin.blocks
                          /\ curIndex = lin.curIndex
                          /\ count = SetBits

\* a Get holds the read lock while an overlapping MarkFree, which handed out an
\* index, has not yet returned to its caller
C18_Witness ==
    \E p, q \in Procs :
        /\ pc[p] = "ret" /\ call[p].op = "MarkFree" /\ call[p].ret >= 0
        /\ pc[q] = "gUnlock" /\ call[q].res

\* ---------------------------------------------------------------------------
\* contended allocation: every caller loops MarkFree, then Unmark of the index
\* it received; nobody calls Set(i, true) or Reset

\* the return of a call; the caller keeps the index a MarkFree gave it
CReturnHold(p) ==
    /\ pc[p] = "ret"
    /\ pc' = [pc EXCEPT ![p] = "idle"]
    /\ idx' = [idx EXCEPT ![p] = IF call[p].op = "MarkFree" THEN call[p].ret ELSE @]
    /\ call' = [call EXCEPT ![p] = NoCallRec]
    /\ lin' = [lin EXCEPT !.exp[p] = NoExp]
    /\ UNCHANGED <<bitmap, mu, got, last, rets>>

\* MarkFree by a caller that holds no index
CMarkFreeBeginFree(p) ==
    /\ idx[p] = BitBlockNotFound
    /\ CMarkFreeBegin(p)

\* Unmark(i) = Set(i, false), lines 83-86, of the index the caller holds
CUnmarkHeldBegin(p) ==
    /\ pc[p] = "idle"
    /\ idx[p] # BitBlockNotFound
    /\ call' = [call EXCEPT ![p] = [op |-> "Set", index |-> idx[p],
                                    mark |-> bitBlockUnmark,
                                    ret |-> 0, res |-> FALSE]]
    /\ idx' = [idx EXCEPT ![p] = BitBlockNotFound]
    /\ IF bitIndexAndNum(idx[p])[1] < size
       THEN /\ pc' = [pc EXCEPT ![p] = "sLock"]
            /\ UNCHANGED lin
       ELSE /\ pc' = [pc EXCEPT ![p] = "ret"]
            /\ Linearize(p, LinState, NoExp)
    /\ UNCHANGED <<bitmap, mu, got, last, rets>>

InitContend ==
    /\ \E s \in Starts : InitBitmapAfter(s[1], s[2])
    /\ InitCalling(MaxProcs)

NextContend ==
    \E p \in Procs :
        \/ CMarkFreeBeginFree(p)
        \/ CMarkFreeLock(p)
        \/ CMarkFreeCheck(p)
        \/ CMarkFreeMark(p)
        \/ CMarkFreeUnlock(p)
        \/ CUnmarkHeldBegin(p)
        \/ CSetLock(p)
        \/ CSetBit(p)
        \/ CSetCount(p)
        \/ CSetUnlock(p)
        \/ CReturnHold(p)

SpecContend == InitContend /\ [][NextContend]_vars

\* the indices handed out by MarkFree and not yet given back by Unmark: held
\* by a caller, or on the way to or from one
Handed(p) ==
    IF idx[p] # BitBlockNotFound THEN {idx[p]}
    ELSE IF call[p].op = "MarkFree" /\ pc[p] \in {"fUnlock", "ret"}
            /\ call[p].ret # BitBlockNotFound
         THEN {call[p].ret}
    ELSE IF call[p].op = "Set" /\ pc[p] \in {"sLock", "sBit"}
         THEN {call[p].index}
    ELSE {}

\* C15: with concurrent MarkFree callers that give back what they received, the
\* count never exceeds the capacity, no more bits are set than the capacity,
\* the callers never hold more indices than the capacity, no index is held
\* twice, every held index has its bit set, and a caller that passed the fast check and finds no room
\* under the lock returns BitBlockNotFound without changing anything.
C15_DoubleChecked ==
    /\ count <= capacity
    /\ SetBits <= capacity
    /\ Cardinality(UNION {Handed(p) : p \in Procs}) <= capacity
    /\ \A p, q \in Procs : p # q => Handed(p) \cap Handed(q) = {}
    /\ \A p \in Procs : Handed(p) \subseteq Occupied(blocks)
    /\ \A p \in Procs :
          pc[p] \in {"fUnlock", "ret"} /\ call[p].op = "MarkFree"
          /\ call[p].ret = BitBlockNotFound => Handed(p) = {}

\* a caller passed the fast check while a slot was left, found the bitmap full
\* under the lock and is about to return BitBlockNotFound
C15_Witness ==
    \E p \in Procs :
        /\ pc[p] = "fUnlock"
        /\ call[p].ret = BitBlockNotFound
        /\ count = capacity
        /\ capacity >= 1

\* ---------------------------------------------------------------------------
\* one call per caller: each caller makes one call of Set, Get, Reset or
\* MarkFree and is done when it has returned

\* the return of the caller's only call; the record of the call is kept
CReturnDone(p) ==
    /\ pc[p] = "ret"
    /\ pc' = [pc EXCEPT ![p] = "done"]
    /\ UNCHANGED <<bitmap, mu, call, lin, idx, got, last, rets>>

\* the call of a caller
BeginOnce(p) ==
    \/ \E i \in ConcIndices, m \in BOOLEAN : CSetBegin(p, i, m)
    \/ \E i \in ConcIndices : CGetBegin(p, i)
    \/ CMarkFreeBegin(p)
    \/ (size = 1 /\ CResetBegin(p))

\* the steps of a call that has begun, up to its return
Proceed(p) ==
    \/ CSetLock(p)
    \/ CSetBit(p)
    \/ CSetCount(p)
    \/ CSetUnlock(p)
    \/ CGetRLock(p)
    \/ CGetRead(p)
    \/ CGetRUnlock(p)
    \/ CMarkFreeLock(p)
    \/ CMarkFreeCheck(p)
    \/ CMarkFreeMark(p)
    \/ CMarkFreeUnlock(p)
    \/ CResetLock(p)
    \/ CResetZero(p)
    \/ CResetCount(p)
    \/ CResetUnlock(p)
    \/ CReturnDone(p)

InitOnce ==
    /\ \E s \in ConcStarts : InitBitmapAfter(s[1], s[2])
    /\ InitCalling(MaxCallers)

NextOnce == \E p \in Procs : BeginOnce(p) \/ Proceed(p)

\* the scheduler and the lock are fair: a caller whose next step stays possible
\* takes it
FairOnce == \A p \in Procs : WF_vars(Proceed(p))

SpecOnce == InitOnce /\ [][NextOnce]_vars /\ FairOnce

\* the caller is between its call and its return
InCall(p) == pc[p] \notin {"idle", "ret", "done", "off"}

\* C20: every call of Set, Get, Reset and MarkFree that has begun returns; a
\* caller that has returned, or has not called, holds neither the exclusive nor
\* the read lock, whatever path its call took; and the scan of a MarkFree call
\* examines at most size words.
C20_TerminatesAndReleases ==
    /\ \A p \in Procs : InCall(p) ~> (pc[p] = "done")
    /\ [](\A p \in Procs : ~InCall(p) => mu.writer # p /\ p \notin mu.readers)
    /\ [](\A p \in Procs : pc[p] = "fCheck" => nextFree.scanned <= size)

\* a MarkFree that passed the fast check while one slot was left holds the lock
\* on its path to BitBlockNotFound, after the Set that took the slot has locked,
\* unlocked and returned
C20_Witness ==
    \E p, q \in Procs :
        /\ pc[p] = "fUnlock" /\ call[p].ret = BitBlockNotFound /\ mu.writer = p
        /\ pc[q] = "done" /\ call[q].op = "Set" /\ call[q].res

====
